---------------------------- MODULE Spec2Model ----------------------------
(***************************************************************************)
(* HLS live-stream demo server (server/main.go): the in-memory store, its  *)
(* reader/writer lock, the three HTTP handlers behind the default          *)
(* ServeMux, and the two tasks that feed the encoder's stdout and stderr   *)
(* to savePlaylist; and, in PipelineSpec, main's start-up, the frame loop   *)
(* that feeds the encoder's stdin, and the encoder's pipes.                *)
(*                                                                         *)
(* Byte strings are sequences of tokens; a token stands for a non-empty    *)
(* run of bytes, so len(x) == 0 in the code is Len(x) = 0 here.  The token *)
(* "#" stands for text whose first byte is '#'.                            *)
(***************************************************************************)
EXTENDS Naturals, Sequences, FiniteSets, TLC

(***************************************************************************)
(* Bounds of the model.                                                    *)
(***************************************************************************)
\* Number of manifest chunks (chunks starting with '#') the encoder emits.
MaxUpdates == 2
\* Frames the encoder's stdin pipe holds before a Write to it blocks.
StdinCap == 1
\* Chunks a stdout or stderr pipe holds before the encoder's write blocks.
PipeCap == 1

None == "none"

\* The connections served at once, one goroutine each.
Conns == {"c1", "c2"}
\* The two copy tasks os/exec starts for cmd.Stdout and cmd.Stderr.
Pipes == {"stdout", "stderr"}

Methods == {"GET", "PUT", "POST"}

\* Request paths: "/", "/index.m3u8", "/segment_", "/segment_001.ts".
RootPath == <<"/">>
PlaylistPath == <<"/", "index.m3u8">>
SegmentTokens == {"segment_", "segment_001.ts"}
Paths == {RootPath, PlaylistPath} \cup {<<"/", s>> : s \in SegmentTokens}

\* Where a request body ends in a read error instead of EOF.
Broken == "read error"

\* Request bodies of a PUT, as the chunks io.Copy reads one after the other;
\* the last one breaks off after its first chunk.
Bodies == {<<"b1", "b2">>, <<"b3">>, <<"b1", Broken>>}

\* The body can be read to its end.
Readable(body) == \A i \in DOMAIN body : body[i] # Broken

\* What the encoder writes to stdout or stderr in one Write call.
Chunks == {<<"#">>, <<"#", "segment_001.ts">>, <<"segment_001.ts">>}

IsSegmentPath(path) == Len(path) = 2 /\ path[1] = "/" /\ path[2] \in SegmentTokens

\* segmentName := r.URL.Path[1:]
SegmentName(path) == Tail(path)

(***************************************************************************)
(* http.HandleFunc("/", ...), ("/index.m3u8", ...), ("/segment_", ...) on  *)
(* the default ServeMux.  net/http: a pattern that does not end in a slash *)
(* names one fixed path and matches that path only; a pattern that ends in *)
(* a slash names a subtree, and "/" matches every path that no other       *)
(* pattern matches.  "/segment_" ends in no slash, so it is matched by the *)
(* path "/segment_" alone; "/segment_001.ts" falls to "/".                 *)
(***************************************************************************)
Route(path) ==
    IF path = PlaylistPath THEN "playlistHandler"
    ELSE IF path = <<"/", "segment_">> THEN "segmentHandler"
    ELSE "indexHandler"

\* data[0] == '#' with len(data) > 0 (savePlaylist's test for an M3U8 chunk)
IsManifestData(data) == Len(data) > 0 /\ data[1] = "#"

\* The test inverted: len(store.playlist) != 0.
PlaylistEmptyInverted(pl) == Len(pl) # 0

\* len(store.playlist) == 0 (playlistHandler's test for "not yet available")
PlaylistEmpty(pl) == Len(pl) = 0

\* store.segments[segmentName] = buf.Bytes()
StoreSegment(segs, name, bytes) == (name :> bytes) @@ segs

\* segmentData, ok := store.segments[segmentName]
HasSegment(segs, name) == name \in DOMAIN segs

\* The segment names a manifest references: its tokens that are segment URIs.
Refs(pl) == {<<pl[i]>> : i \in {j \in DOMAIN pl : pl[j] \in SegmentTokens}}

NoReq == [method |-> None, path |-> <<>>, body |-> <<>>]
NoResp == [status |-> 0, ctype |-> None, body |-> <<>>]

\* The requests a client can send; only a PUT carries a body.
Requests ==
    {[method |-> m, path |-> path, body |-> <<>>] :
        m \in Methods \ {"PUT"}, path \in Paths}
    \cup {[method |-> "PUT", path |-> path, body |-> b] : path \in Paths, b \in Bodies}

\* The requests the mux hands to handler h.
RoutedTo(h) == {r \in Requests : Route(r.path) = h}

\* http.HandleFunc("/", indexHandler)
IndexRequests == RoutedTo("indexHandler")
\* http.HandleFunc("/index.m3u8", playlistHandler)
PlaylistRequests == RoutedTo("playlistHandler")
\* http.HandleFunc("/segment_", segmentHandler)
SegmentRequests == RoutedTo("segmentHandler")

HtmlPage == <<"html">>

VARIABLES
    segments,   \* store.segments: segment name -> bytes
    playlist,   \* store.playlist
    mutexW,     \* store.mutex: the task inside Lock()..Unlock(), or None
    readers,    \* store.mutex: the tasks inside RLock()..RUnlock()
    pc,         \* per connection: where its handler is
    req,        \* per connection: the request being served
    buf,        \* per connection: bytes.Buffer of a PUT / segmentData of a GET
    resp,       \* per connection: what has been written to the ResponseWriter
    dpc,        \* per pipe: where its Write -> savePlaylist call is
    data,       \* per pipe: the chunk passed to savePlaylist
    mHist,      \* history: the chunks savePlaylist has stored, in order
    putDone,    \* history: the paths of the PUT /segment_* answered 2xx
    stale,      \* history: the stored names the last stored manifest left out
    mainPc,     \* main: the call it is at, "serving" inside ListenAndServe
    fatal,      \* main: the call whose error ended the process, or None
    capture,    \* the capture device: "closed", "open"
    ffmpeg,     \* the encoder process: "notStarted", "running", "exited"
    ffWants,    \* the pipe the encoder is writing a chunk to, or None
    loopPc,     \* the frame loop: "notStarted", "Read", "Write", "returned"
    stdinLen,   \* frames in the encoder's stdin pipe
    pipeLen,    \* per pipe: chunks in it that the copy task has not taken
    closes,     \* history: the calls of ffmpegIn.Close()
    readFailed, \* history: some capture.Read failed or gave an empty frame
    writeFailed,\* history: an ffmpegIn.Write returned an error
    wroteAfterFail \* history: a frame was written after such a read

server == <<segments, playlist, mutexW, readers, pc, req, buf, resp, dpc, data,
            mHist, putDone, stale>>

pipeline == <<mainPc, fatal, capture, ffmpeg, ffWants, loopPc, stdinLen, pipeLen,
              closes, readFailed, writeFailed, wroteAfterFail>>

vars == <<server, pipeline>>

store == <<segments, playlist>>

\* The store as the declarations of main.go leave it, with no request and no
\* encoder output yet.
ServerInit ==
    /\ segments = <<>>
    /\ playlist = <<>>
    /\ mutexW = None
    /\ readers = {}
    /\ pc = [c \in Conns |-> "idle"]
    /\ req = [c \in Conns |-> NoReq]
    /\ buf = [c \in Conns |-> <<>>]
    /\ resp = [c \in Conns |-> NoResp]
    /\ dpc = [p \in Pipes |-> "idle"]
    /\ data = [p \in Pipes |-> <<>>]
    /\ mHist = <<>>
    /\ putDone = {}
    /\ stale = {}

\* main inside ListenAndServe, the encoder running, the frame loop started.
\* Spec follows the server from here and leaves the pipeline where it is.
Init ==
    /\ ServerInit
    /\ mainPc = "serving"
    /\ fatal = None
    /\ capture = "open"
    /\ ffmpeg = "running"
    /\ ffWants = None
    /\ loopPc = "Read"
    /\ stdinLen = 0
    /\ pipeLen = [p \in Pipes |-> 0]
    /\ closes = 0
    /\ readFailed = FALSE
    /\ writeFailed = FALSE
    /\ wroteAfterFail = FALSE

(***************************************************************************)
(* The HTTP server.  A handler's first step includes the arrival of its    *)
(* request on an idle connection: a request that waits for the lock has no *)
(* effect on anything until it gets it.                                    *)
(***************************************************************************)
Arrives(c, r) ==
    /\ pc[c] = "idle"
    /\ req' = [req EXCEPT ![c] = r]

\* The handler of request r on connection c returns with response w.
Respond(c, r, w) ==
    /\ resp' = [resp EXCEPT ![c] = w]
    /\ pc' = [pc EXCEPT ![c] = "done"]
    /\ putDone' = IF /\ r.method = "PUT"
                     /\ IsSegmentPath(r.path)
                     /\ w.status \in 200..299
                  THEN putDone \cup {r.path}
                  ELSE putDone

\* http.Error(w, msg, code)
HttpError(msg, code) == [status |-> code, ctype |-> "text/plain", body |-> <<msg>>]

indexHandler(c) ==
    /\ \E r \in IndexRequests :
         /\ Arrives(c, r)
         /\ Respond(c, r, [status |-> 200, ctype |-> "text/html", body |-> HtmlPage])
    /\ UNCHANGED <<segments, playlist, mutexW, readers, buf, dpc, data, mHist, stale>>

\* RLock() returns only while no task is inside Lock()..Unlock().
CanRLock == mutexW = None

\* The unlock left out on the path that writes the manifest.
RUnlockSkipped(rs, c) == rs

\* store.mutex.RUnlock() by task c
RUnlock(rs, c) == rs \ {c}

\* Lock() is entered only while no other task is inside Lock()..Unlock().
CanLock == mutexW = None

\* playlistHandler up to w.Write: RLock, the emptiness test, and on the 503
\* path http.Error and the deferred RUnlock.
playlistHandler(c) ==
    /\ CanRLock
    /\ \E r \in PlaylistRequests :
         /\ Arrives(c, r)
         /\ IF PlaylistEmpty(playlist)
            THEN /\ Respond(c, r, HttpError("Playlist not yet available", 503))
                 /\ UNCHANGED readers
            ELSE /\ readers' = readers \cup {c}
                 /\ pc' = [pc EXCEPT ![c] = "playlistWrite"]
                 /\ resp' = [resp EXCEPT ![c].ctype = "application/vnd.apple.mpegurl"]
                 /\ UNCHANGED putDone
    /\ UNCHANGED <<segments, playlist, mutexW, buf, dpc, data, mHist, stale>>

\* w.Write(store.playlist) returns (the client has taken the bytes), then the
\* deferred RUnlock runs.
playlistWrite(c) ==
    /\ pc[c] = "playlistWrite"
    /\ Respond(c, req[c], [resp[c] EXCEPT !.status = 200, !.body = playlist])
    /\ readers' = RUnlock(readers, c)
    /\ UNCHANGED <<segments, playlist, mutexW, req, buf, dpc, data, mHist, stale>>

\* case http.MethodPut: var buf bytes.Buffer
segmentPut(c) ==
    /\ \E r \in SegmentRequests :
         /\ r.method = "PUT"
         /\ Arrives(c, r)
    /\ pc' = [pc EXCEPT ![c] = "segmentPutRead"]
    /\ UNCHANGED <<segments, playlist, mutexW, readers, buf, resp, dpc, data,
                   mHist, putDone, stale>>

\* io.Copy(&buf, r.Body) reads one more chunk.
segmentPutRead(c) ==
    /\ pc[c] = "segmentPutRead"
    /\ Len(buf[c]) < Len(req[c].body)
    /\ req[c].body[Len(buf[c]) + 1] # Broken
    /\ buf' = [buf EXCEPT ![c] = Append(@, req[c].body[Len(@) + 1])]
    /\ UNCHANGED <<segments, playlist, mutexW, readers, pc, req, resp, dpc, data,
                   mHist, putDone, stale>>

\* io.Copy returns an error before the end of the body: 500, nothing stored.
segmentPutReadError(c) ==
    /\ pc[c] = "segmentPutRead"
    /\ Len(buf[c]) < Len(req[c].body)
    /\ req[c].body[Len(buf[c]) + 1] = Broken
    /\ Respond(c, req[c], HttpError("Error reading segment data", 500))
    /\ UNCHANGED <<segments, playlist, mutexW, readers, req, buf, dpc, data, mHist, stale>>

\* io.Copy reached the end of the body; store.mutex.Lock() is entered: from
\* here on no new reader gets in.
segmentPutLock(c) ==
    /\ pc[c] = "segmentPutRead"
    /\ Len(buf[c]) = Len(req[c].body)
    /\ CanLock
    /\ mutexW' = c
    /\ pc' = [pc EXCEPT ![c] = "segmentPutStore"]
    /\ UNCHANGED <<segments, playlist, readers, req, buf, resp, dpc, data,
                   mHist, putDone, stale>>

\* Lock() returns once the readers have left; the assignment, Unlock,
\* WriteHeader(201) and Write("OK").
segmentPutStore(c) ==
    /\ pc[c] = "segmentPutStore"
    /\ mutexW = c
    /\ readers = {}
    /\ segments' = StoreSegment(segments, SegmentName(req[c].path), buf[c])
    /\ mutexW' = None
    /\ Respond(c, req[c], [status |-> 201, ctype |-> None, body |-> <<"OK">>])
    /\ stale' = stale \ {SegmentName(req[c].path)}
    /\ UNCHANGED <<playlist, readers, req, buf, dpc, data, mHist>>

\* case http.MethodGet: RLock, the lookup, RUnlock, and on a miss the 404.
segmentGet(c) ==
    /\ CanRLock
    /\ \E r \in SegmentRequests :
         /\ r.method = "GET"
         /\ Arrives(c, r)
         /\ IF HasSegment(segments, SegmentName(r.path))
            THEN /\ buf' = [buf EXCEPT ![c] = segments[SegmentName(r.path)]]
                 /\ pc' = [pc EXCEPT ![c] = "segmentGetWrite"]
                 /\ resp' = [resp EXCEPT ![c].ctype = "video/mp2t"]
                 /\ UNCHANGED putDone
            ELSE /\ Respond(c, r, HttpError("Segment not found", 404))
                 /\ UNCHANGED buf
    /\ UNCHANGED <<segments, playlist, mutexW, readers, dpc, data, mHist, stale>>

\* w.Write(segmentData) returns; the lock was released before it.
segmentGetWrite(c) ==
    /\ pc[c] = "segmentGetWrite"
    /\ Respond(c, req[c], [resp[c] EXCEPT !.status = 200, !.body = buf[c]])
    /\ UNCHANGED <<segments, playlist, mutexW, readers, req, buf, dpc, data, mHist, stale>>

\* default: 405
segmentDefault(c) ==
    /\ \E r \in SegmentRequests :
         /\ r.method \notin {"GET", "PUT"}
         /\ Arrives(c, r)
         /\ Respond(c, r, HttpError("Method not allowed", 405))
    /\ UNCHANGED <<segments, playlist, mutexW, readers, buf, dpc, data, mHist, stale>>

\* The response has been delivered; the connection serves its next request.
Finish(c) ==
    /\ pc[c] = "done"
    /\ pc' = [pc EXCEPT ![c] = "idle"]
    /\ req' = [req EXCEPT ![c] = NoReq]
    /\ buf' = [buf EXCEPT ![c] = <<>>]
    /\ resp' = [resp EXCEPT ![c] = NoResp]
    /\ UNCHANGED <<segments, playlist, mutexW, readers, dpc, data, mHist, putDone, stale>>

(***************************************************************************)
(* The encoder's stdout and stderr: pipeWriter.Write -> savePlaylist.      *)
(***************************************************************************)
\* Manifest chunks handed to savePlaylist so far, stored or still in the call.
UpdatesStarted == Len(mHist) + Cardinality({p \in Pipes : dpc[p] # "idle"})

\* store.playlist = append(store.playlist, p...)
AppendChunk(pl, d) == pl \o d

\* pipeWriter.Write(d) -> savePlaylist(d): d is logged, or it is an M3U8
\* chunk and store.mutex.Lock() is entered: from here on no new reader gets in.
savePlaylist(p) ==
    /\ dpc[p] = "idle"
    /\ \E d \in Chunks :
         IF IsManifestData(d)
         THEN /\ UpdatesStarted < MaxUpdates
              /\ CanLock
              /\ mutexW' = p
              /\ dpc' = [dpc EXCEPT ![p] = "append"]
              /\ data' = [data EXCEPT ![p] = d]
         ELSE UNCHANGED <<mutexW, dpc, data>>
    /\ UNCHANGED <<segments, playlist, readers, pc, req, buf, resp, mHist, putDone, stale>>

\* Lock() returns once the readers have left; the first append.
savePlaylistAppend(p) ==
    /\ dpc[p] = "append"
    /\ mutexW = p
    /\ readers = {}
    /\ playlist' = AppendChunk(playlist, data[p])
    /\ dpc' = [dpc EXCEPT ![p] = "newline"]
    /\ UNCHANGED <<segments, mutexW, readers, pc, req, buf, resp, data,
                   mHist, putDone, stale>>

\* store.playlist = append(store.playlist, '\n'); Unlock.
savePlaylistNewline(p) ==
    /\ dpc[p] = "newline"
    /\ mutexW = p
    /\ playlist' = Append(playlist, "\n")
    /\ mutexW' = None
    /\ mHist' = Append(mHist, data[p])
    /\ dpc' = [dpc EXCEPT ![p] = "idle"]
    /\ data' = [data EXCEPT ![p] = <<>>]
    /\ stale' = DOMAIN segments \ Refs(playlist')
    /\ UNCHANGED <<segments, readers, pc, req, buf, resp, putDone>>

Next ==
    \/ \E c \in Conns :
         \/ indexHandler(c) /\ UNCHANGED pipeline
         \/ playlistHandler(c) /\ UNCHANGED pipeline
         \/ playlistWrite(c) /\ UNCHANGED pipeline
         \/ segmentPut(c) /\ UNCHANGED pipeline
         \/ segmentPutRead(c) /\ UNCHANGED pipeline
         \/ segmentPutReadError(c) /\ UNCHANGED pipeline
         \/ segmentPutLock(c) /\ UNCHANGED pipeline
         \/ segmentPutStore(c) /\ UNCHANGED pipeline
         \/ segmentGet(c) /\ UNCHANGED pipeline
         \/ segmentGetWrite(c) /\ UNCHANGED pipeline
         \/ segmentDefault(c) /\ UNCHANGED pipeline
         \/ Finish(c) /\ UNCHANGED pipeline
    \/ \E p \in Pipes :
         \/ savePlaylist(p) /\ UNCHANGED pipeline
         \/ savePlaylistAppend(p) /\ UNCHANGED pipeline
         \/ savePlaylistNewline(p) /\ UNCHANGED pipeline

Spec == Init /\ [][Next]_vars

(***************************************************************************)
(* The pipeline: main's start-up, the frame loop and the encoder.  A       *)
(* log.Fatal in main ends the process with all its goroutines.             *)
(***************************************************************************)
\* The connections followed together with the pipeline.
PipelineConns == {"c1"}

ReadOutcomes == {"ok", "failed", "empty"}

Alive == mainPc # "exited"

\* log.Fatalf / log.Fatal in main: os.Exit(1)
Fatal(call) ==
    /\ mainPc' = "exited"
    /\ fatal' = call

\* The error of OpenVideoCapture ignored: main goes on to start the encoder.
OpenVideoCaptureUnchecked ==
    /\ mainPc = "OpenVideoCapture"
    /\ \E ok \in BOOLEAN :
         capture' = IF ok THEN "open" ELSE "closed"
    /\ mainPc' = "Start"
    /\ UNCHANGED <<fatal, ffmpeg, ffWants, loopPc, stdinLen, pipeLen,
                   closes, readFailed, writeFailed, wroteAfterFail>>
    /\ UNCHANGED server

\* capture, err := gocv.OpenVideoCapture(cameraIndex); the capture.Set calls
OpenVideoCapture ==
    /\ mainPc = "OpenVideoCapture"
    /\ \E ok \in BOOLEAN :
         IF ok THEN capture' = "open" /\ mainPc' = "Start" /\ UNCHANGED fatal
         ELSE Fatal("OpenVideoCapture") /\ UNCHANGED capture
    /\ UNCHANGED <<ffmpeg, ffWants, loopPc, stdinLen, pipeLen,
                   closes, readFailed, writeFailed, wroteAfterFail>>
    /\ UNCHANGED server

\* cmd.StdinPipe(), the two pipeWriters, cmd.Start()
Start ==
    /\ mainPc = "Start"
    /\ \E ok \in BOOLEAN :
         IF ok THEN /\ ffmpeg' = "running"
                    /\ mainPc' = "go"
                    /\ UNCHANGED fatal
         ELSE Fatal("Start") /\ UNCHANGED ffmpeg
    /\ UNCHANGED <<ffWants, loopPc, stdinLen, pipeLen,
                   closes, readFailed, writeFailed, wroteAfterFail>>
    /\ UNCHANGED <<server, capture>>

\* go func() { ... }(): the frame loop starts; main goes on to HandleFunc.
goFrameLoop ==
    /\ mainPc = "go"
    /\ loopPc' = "Read"
    /\ mainPc' = "ListenAndServe"
    /\ UNCHANGED <<fatal, ffmpeg, ffWants, stdinLen, pipeLen,
                   closes, readFailed, writeFailed, wroteAfterFail>>
    /\ UNCHANGED <<server, capture>>

\* log.Fatal(http.ListenAndServe(":8080", nil)): the listener binds and main
\* stays inside, or it does not and the process ends.
ListenAndServe ==
    /\ mainPc = "ListenAndServe"
    /\ \E ok \in BOOLEAN :
         IF ok THEN mainPc' = "serving" /\ UNCHANGED fatal
         ELSE Fatal("ListenAndServe")
    /\ UNCHANGED <<ffmpeg, ffWants, loopPc, stdinLen, pipeLen,
                   closes, readFailed, writeFailed, wroteAfterFail>>
    /\ UNCHANGED <<server, capture>>

\* A failed or empty read treated like a failed write: Close and return.
captureReadGivesUp ==
    /\ Alive
    /\ loopPc = "Read"
    /\ \E o \in ReadOutcomes :
         IF o = "ok"
         THEN loopPc' = "Write" /\ UNCHANGED <<readFailed, closes>>
         ELSE loopPc' = "returned" /\ readFailed' = TRUE /\ closes' = closes + 1
    /\ UNCHANGED <<mainPc, fatal, ffmpeg, ffWants, stdinLen, pipeLen,
                   writeFailed, wroteAfterFail>>
    /\ UNCHANGED <<server, capture>>

\* if ok := capture.Read(&img); !ok { log; continue }
\* if img.Empty() { continue }
captureRead ==
    /\ Alive
    /\ loopPc = "Read"
    /\ \E o \in ReadOutcomes :
         IF o = "ok"
         THEN loopPc' = "Write" /\ UNCHANGED readFailed
         ELSE loopPc' = "Read" /\ readFailed' = TRUE
    /\ UNCHANGED <<mainPc, fatal, ffmpeg, ffWants, stdinLen, pipeLen,
                   closes, writeFailed, wroteAfterFail>>
    /\ UNCHANGED <<server, capture>>

\* ffmpegIn.Write(img.ToBytes()) returns nil: the pipe had room for the frame.
frameWrite ==
    /\ Alive
    /\ loopPc = "Write"
    /\ ffmpeg = "running"
    /\ stdinLen < StdinCap
    /\ stdinLen' = stdinLen + 1
    /\ wroteAfterFail' = readFailed
    /\ loopPc' = "Read"
    /\ UNCHANGED <<mainPc, fatal, ffmpeg, ffWants, pipeLen,
                   closes, readFailed, writeFailed>>
    /\ UNCHANGED <<server, capture>>

\* The process ended together with the frame loop.
frameWriteFailsAndExits ==
    /\ Alive
    /\ loopPc = "Write"
    /\ ffmpeg = "exited"
    /\ writeFailed' = TRUE
    /\ closes' = closes + 1
    /\ loopPc' = "returned"
    /\ Fatal("Write")
    /\ UNCHANGED <<ffmpeg, ffWants, stdinLen, pipeLen,
                   readFailed, wroteAfterFail>>
    /\ UNCHANGED <<server, capture>>

\* The deferred Close run without the return: the loop goes on.
frameWriteFailsGoesOn ==
    /\ Alive
    /\ loopPc = "Write"
    /\ ffmpeg = "exited"
    /\ writeFailed' = TRUE
    /\ closes' = closes + 1
    /\ loopPc' = "Read"
    /\ UNCHANGED <<mainPc, fatal, ffmpeg, ffWants, stdinLen, pipeLen,
                   readFailed, wroteAfterFail>>
    /\ UNCHANGED <<server, capture>>

\* ffmpegIn.Write returns an error (the encoder has gone): log, return, and
\* the deferred ffmpegIn.Close().
frameWriteFails ==
    /\ Alive
    /\ loopPc = "Write"
    /\ ffmpeg = "exited"
    /\ writeFailed' = TRUE
    /\ closes' = closes + 1
    /\ loopPc' = "returned"
    /\ UNCHANGED <<mainPc, fatal, ffmpeg, ffWants, stdinLen, pipeLen,
                   readFailed, wroteAfterFail>>
    /\ UNCHANGED <<server, capture>>

\* The encoder takes a frame from its stdin, unless it is inside a write.
ffmpegRead ==
    /\ ffmpeg = "running"
    /\ ffWants = None
    /\ stdinLen > 0
    /\ stdinLen' = stdinLen - 1
    /\ UNCHANGED <<mainPc, fatal, ffmpeg, ffWants, loopPc, pipeLen,
                   closes, readFailed, writeFailed, wroteAfterFail>>
    /\ UNCHANGED <<server, capture>>

\* The encoder begins to write a chunk to stdout or stderr.
ffmpegWrite(p) ==
    /\ ffmpeg = "running"
    /\ ffWants = None
    /\ ffWants' = p
    /\ UNCHANGED <<mainPc, fatal, ffmpeg, loopPc, stdinLen, pipeLen,
                   closes, readFailed, writeFailed, wroteAfterFail>>
    /\ UNCHANGED <<server, capture>>

\* The encoder's write returns: the pipe had room for the chunk.
ffmpegWritten(p) ==
    /\ ffmpeg = "running"
    /\ ffWants = p
    /\ pipeLen[p] < PipeCap
    /\ pipeLen' = [pipeLen EXCEPT ![p] = @ + 1]
    /\ ffWants' = None
    /\ UNCHANGED <<mainPc, fatal, ffmpeg, loopPc, stdinLen,
                   closes, readFailed, writeFailed, wroteAfterFail>>
    /\ UNCHANGED <<server, capture>>

\* The encoder process ends; what its stdin pipe held is gone with it.
ffmpegExits ==
    /\ ffmpeg = "running"
    /\ ffmpeg' = "exited"
    /\ ffWants' = None
    /\ stdinLen' = 0
    /\ UNCHANGED <<mainPc, fatal, loopPc, pipeLen,
                   closes, readFailed, writeFailed, wroteAfterFail>>
    /\ UNCHANGED <<server, capture>>

\* The copy task os/exec runs for cmd.Stdout / cmd.Stderr takes a chunk from
\* its pipe and calls pipeWriter.Write with it.
copyPipe(p) ==
    /\ Alive
    /\ pipeLen[p] > 0
    /\ savePlaylist(p)
    /\ pipeLen' = [pipeLen EXCEPT ![p] = @ - 1]
    /\ UNCHANGED <<mainPc, fatal, capture, ffmpeg, ffWants, loopPc, stdinLen,
                   closes, readFailed, writeFailed, wroteAfterFail>>

Serving == mainPc = "serving"

PipelineInit ==
    /\ ServerInit
    /\ mainPc = "OpenVideoCapture"
    /\ fatal = None
    /\ capture = "closed"
    /\ ffmpeg = "notStarted"
    /\ ffWants = None
    /\ loopPc = "notStarted"
    /\ stdinLen = 0
    /\ pipeLen = [p \in Pipes |-> 0]
    /\ closes = 0
    /\ readFailed = FALSE
    /\ writeFailed = FALSE
    /\ wroteAfterFail = FALSE

\* cmd.Start() has started the two copy tasks.
Copying == Alive /\ ffmpeg # "notStarted"

\* Start-up, the frame loop, the encoder's end and the server on one
\* connection; the encoder's output is whatever the copy tasks hand over.
PipelineNext ==
    \/ OpenVideoCapture
    \/ Start
    \/ goFrameLoop
    \/ ListenAndServe
    \/ captureRead
    \/ frameWrite
    \/ frameWriteFails
    \/ ffmpegRead
    \/ ffmpegExits
    \/ \E p \in Pipes :
         \/ Copying /\ savePlaylist(p) /\ UNCHANGED pipeline
         \/ Copying /\ savePlaylistAppend(p) /\ UNCHANGED pipeline
         \/ Copying /\ savePlaylistNewline(p) /\ UNCHANGED pipeline
    \/ \E c \in PipelineConns :
         \/ Serving /\ indexHandler(c) /\ UNCHANGED pipeline
         \/ Serving /\ playlistHandler(c) /\ UNCHANGED pipeline
         \/ Serving /\ playlistWrite(c) /\ UNCHANGED pipeline
         \/ Serving /\ segmentPut(c) /\ UNCHANGED pipeline
         \/ Serving /\ segmentPutRead(c) /\ UNCHANGED pipeline
         \/ Serving /\ segmentPutReadError(c) /\ UNCHANGED pipeline
         \/ Serving /\ segmentPutLock(c) /\ UNCHANGED pipeline
         \/ Serving /\ segmentPutStore(c) /\ UNCHANGED pipeline
         \/ Serving /\ segmentGet(c) /\ UNCHANGED pipeline
         \/ Serving /\ segmentGetWrite(c) /\ UNCHANGED pipeline
         \/ Serving /\ segmentDefault(c) /\ UNCHANGED pipeline
         \/ Serving /\ Finish(c) /\ UNCHANGED pipeline

PipelineSpec == PipelineInit /\ [][PipelineNext]_vars

\* Start-up, the frame loop, the encoder with its three pipes, the two copy
\* tasks, and GET /index.m3u8 on one connection.
DrainNext ==
    \/ OpenVideoCapture
    \/ Start
    \/ goFrameLoop
    \/ ListenAndServe
    \/ captureRead
    \/ frameWrite
    \/ frameWriteFails
    \/ ffmpegRead
    \/ ffmpegExits
    \/ \E p \in Pipes :
         \/ ffmpegWrite(p)
         \/ ffmpegWritten(p)
         \/ copyPipe(p)
         \/ Copying /\ savePlaylistAppend(p) /\ UNCHANGED pipeline
         \/ Copying /\ savePlaylistNewline(p) /\ UNCHANGED pipeline
    \/ \E c \in PipelineConns :
         \/ Serving /\ playlistHandler(c) /\ UNCHANGED pipeline
         \/ Serving /\ playlistWrite(c) /\ UNCHANGED pipeline
         \/ Serving /\ Finish(c) /\ UNCHANGED pipeline

DrainSpec == PipelineInit /\ [][DrainNext]_vars

\* The steps of main.
mainStep == OpenVideoCapture \/ Start \/ goFrameLoop \/ ListenAndServe

(***************************************************************************)
(* Properties.                                                             *)
(***************************************************************************)
Last(seq) == seq[Len(seq)]

\* Connection c has its response, for a request of method m.
Answered(c, m) == pc[c] = "done" /\ req[c].method = m

\* C1: manifest updates replace the manifest wholesale: whenever
\* GET /index.m3u8 serves the manifest, what it serves is the last chunk
\* savePlaylist stored (with or without its line end) and nothing of the
\* chunks before it.
C1_ServedManifestIsLastUpdate ==
    \A c \in Conns :
        (pc[c] = "playlistWrite" /\ req[c].method = "GET") =>
            playlist \in {Last(mHist), Last(mHist) \o <<"\n">>}

\* C2: every body a GET of /segment_<n> or of /index.m3u8 returns with 200 is
\* the complete payload of a write that had completed: for a segment a whole
\* request body, some PUT of that path having been answered 2xx; for the
\* manifest one of the chunks savePlaylist has stored.
C2_ReadsReturnCompletedWrites ==
    \A c \in Conns :
        (Answered(c, "GET") /\ resp[c].status = 200) =>
            /\ IsSegmentPath(req[c].path) =>
                   (/\ req[c].path \in putDone
                    /\ resp[c].body \in {b \in Bodies : Readable(b)})
            /\ req[c].path = PlaylistPath =>
                   \E i \in DOMAIN mHist :
                       resp[c].body \in {mHist[i], mHist[i] \o <<"\n">>}

\* C3: a PUT /segment_<n> whose body was read to its end is answered 201 and
\* leaves its payload stored under n.
C3_PutSegmentCreated ==
    \A c \in Conns :
        (/\ Answered(c, "PUT")
         /\ IsSegmentPath(req[c].path)
         /\ Readable(req[c].body)) =>
            /\ resp[c].status = 201
            /\ HasSegment(segments, SegmentName(req[c].path))

\* C4: retention: when a manifest update completes, a stored segment that the
\* previous update already left out, that was not PUT again since and that
\* the new manifest leaves out as well, is evicted.
C4_StaleSegmentsEvicted ==
    [][\A p \in Pipes :
          (dpc[p] = "newline" /\ dpc'[p] = "idle") =>
              \A n \in stale :
                  n \notin Refs(playlist') => ~HasSegment(segments', n)]_vars

\* C5: whenever GET /index.m3u8 serves the manifest, every segment the
\* manifest references is in the store; stated here for the referenced
\* segments whose PUT the server has answered 2xx.
C5_ReferencedSegmentsRetrievable ==
    \A c \in Conns :
        (pc[c] = "playlistWrite" /\ req[c].method = "GET") =>
            \A n \in Refs(playlist) :
                (<<"/">> \o n) \in putDone => HasSegment(segments, n)

\* A handler that is inside w.Write, waiting for the client to take the bytes.
Sending(c) == pc[c] \in {"playlistWrite", "segmentGetWrite"}

\* C6: no backpressure from viewers: while a task is inside Lock() (a segment
\* PUT or savePlaylist), no reader that holds the lock is waiting for its
\* client.
C6_NoReaderHoldsLockWhileSending ==
    mutexW # None => \A c \in readers : ~Sending(c)

\* C7: no lost updates: when PUTs on two distinct /segment_* paths, both with
\* a readable body, have both been answered, both names are in the store.
C7_ConcurrentPutsBothStored ==
    \A c1, c2 \in Conns :
        (/\ c1 # c2
         /\ Answered(c1, "PUT") /\ Answered(c2, "PUT")
         /\ IsSegmentPath(req[c1].path) /\ IsSegmentPath(req[c2].path)
         /\ req[c1].path # req[c2].path
         /\ Readable(req[c1].body) /\ Readable(req[c2].body)) =>
            /\ HasSegment(segments, SegmentName(req[c1].path))
            /\ HasSegment(segments, SegmentName(req[c2].path))

\* C8: a GET /index.m3u8 is answered 503 as long as savePlaylist has stored no
\* manifest chunk, whatever happened to the segments, and 200 with the bytes
\* of store.playlist once it has.
C8_PlaylistUnavailableUntilFirstUpdate ==
    [][\A c \in Conns :
          (/\ pc[c] # "done" /\ pc'[c] = "done"
           /\ req'[c].path = PlaylistPath /\ req'[c].method = "GET") =>
              IF mHist = <<>>
              THEN resp'[c].status = 503
              ELSE /\ resp'[c].status = 200
                   /\ resp'[c].body = playlist
                   /\ resp'[c].body # <<>>]_vars

\* Both cases of C8 have happened: one GET /index.m3u8 answered 503 and one
\* answered 200, with segments in the store.
C8_Witness ==
    /\ segments # <<>>
    /\ \E c \in Conns :
         /\ Answered(c, "GET") /\ req[c].path = PlaylistPath
         /\ resp[c].status = 503
    /\ \E c \in Conns :
         /\ Answered(c, "GET") /\ req[c].path = PlaylistPath
         /\ resp[c].status = 200 /\ resp[c].body # <<>>

\* C9: a GET /segment_<n> is answered 404 when no PUT of that path has ever
\* been answered 2xx.
C9_UnwrittenSegmentNotFound ==
    \A c \in Conns :
        (/\ Answered(c, "GET")
         /\ IsSegmentPath(req[c].path)
         /\ req[c].path \notin putDone) =>
            resp[c].status = 404

\* C10: a request on a /segment_* path with a method other than GET and PUT
\* is answered 405.
C10_OtherMethodNotAllowed ==
    \A c \in Conns :
        (/\ pc[c] = "done"
         /\ req[c].method \notin {"GET", "PUT"}
         /\ IsSegmentPath(req[c].path)) =>
            resp[c].status = 405

\* C11: a request with a method other than GET on /index.m3u8 or on / is
\* answered 405, whether a manifest is stored or not.
C11_NonGetNotAllowed ==
    \A c \in Conns :
        (/\ pc[c] = "done"
         /\ req[c].method # "GET"
         /\ req[c].path \in {RootPath, PlaylistPath}) =>
            resp[c].status = 405

\* C12: a PUT /segment_<n> whose body cannot be read to its end is answered
\* 500.
C12_BrokenBodyAnswered500 ==
    \A c \in Conns :
        (/\ Answered(c, "PUT")
         /\ IsSegmentPath(req[c].path)
         /\ ~Readable(req[c].body)) =>
            resp[c].status = 500

\* C14: what arrives on the encoder's stderr never changes the manifest: only
\* the task that copies stdout writes store.playlist.
C14_OnlyStdoutWritesManifest ==
    [][playlist' # playlist => mutexW = "stdout"]_vars

\* C19: a GET on /, /index.m3u8 or /segment_* leaves store.segments and
\* store.playlist as they were in every step its handler takes, and once it
\* is answered its handler no longer holds the read lock: the only tasks
\* inside RLock()..RUnlock() are handlers still writing the manifest.
C19_GetLeavesStoreAndLock ==
    [][\A c \in Conns :
          (pc'[c] # pc[c] /\ req'[c].method = "GET") =>
              /\ segments' = segments
              /\ playlist' = playlist
              /\ pc'[c] = "done" => c \notin readers'
              /\ \A r \in readers' : pc'[r] = "playlistWrite"]_vars

\* A GET /index.m3u8 has been answered 200 and a GET /segment_ has been
\* answered 200, no reader is left and a writer is inside Lock().
C19_Witness ==
    /\ \E c \in Conns :
         /\ Answered(c, "GET") /\ req[c].path = PlaylistPath
         /\ resp[c].status = 200
    /\ \E c \in Conns :
         /\ Answered(c, "GET") /\ IsSegmentPath(req[c].path)
         /\ resp[c].status = 200 /\ resp[c].ctype = "video/mp2t"
    /\ readers = {}
    /\ mutexW # None

\* C13: once a frame write to the encoder has failed and the frame loop has
\* returned, the process has ended or main still has a step to take that can
\* end it.
C13_WriteFailureEndsProcess ==
    writeFailed => (mainPc = "exited" \/ ENABLED mainStep)

\* C15: the frame loop is never blocked writing to a full stdin pipe while
\* the encoder is blocked writing to a full stdout or stderr pipe whose copy
\* task is itself blocked and takes nothing from it.
C15_NoWriterDrainDeadlock ==
    ~ \E p \in Pipes :
        /\ loopPc = "Write" /\ stdinLen = StdinCap
        /\ ffmpeg = "running" /\ ffWants = p /\ pipeLen[p] = PipeCap
        /\ dpc[p] = "append" /\ readers # {}

\* C16: the step in which capture.Read fails or gives an empty frame leaves
\* the loop at its next read, writes nothing to the encoder, closes nothing
\* and ends neither the loop nor the process; at no time is ffmpegIn closed
\* or the loop ended without a failed write.
C16_FailedReadNotFatal ==
    [][/\ (~readFailed /\ readFailed') =>
            /\ loopPc = "Read" /\ loopPc' = "Read"
            /\ stdinLen' = stdinLen
            /\ closes' = closes
            /\ writeFailed' = writeFailed
            /\ mainPc' = mainPc
       /\ (closes' > 0 \/ loopPc' = "returned") => writeFailed']_vars

\* After a failed read a later frame has been written to the encoder, and the
\* loop is at its next read.
C16_Witness ==
    /\ readFailed /\ wroteAfterFail
    /\ loopPc = "Read" /\ closes = 0 /\ Alive

\* C17: once a frame write has failed, main stays inside ListenAndServe, no
\* segment is removed from the store and the manifest loses no byte; a GET
\* that arrives for a stored segment or for a non-empty manifest goes on to
\* write it, and is answered 200 with it.
C17_StoreServedAfterEncoderFailure ==
    [][/\ (writeFailed' /\ mainPc = "serving") => mainPc' = "serving"
       /\ writeFailed =>
            /\ DOMAIN segments \subseteq DOMAIN segments'
            /\ Len(playlist') >= Len(playlist)
            /\ SubSeq(playlist', 1, Len(playlist)) = playlist
            /\ \A c \in Conns :
                 /\ (/\ pc[c] = "idle" /\ pc'[c] # "idle"
                     /\ req'[c].method = "GET"
                     /\ req'[c].path = PlaylistPath
                     /\ playlist # <<>>) => pc'[c] = "playlistWrite"
                 /\ (/\ pc[c] = "idle" /\ pc'[c] # "idle"
                     /\ req'[c].method = "GET"
                     /\ Route(req'[c].path) = "segmentHandler"
                     /\ HasSegment(segments, SegmentName(req'[c].path))) =>
                        /\ pc'[c] = "segmentGetWrite"
                        /\ buf'[c] = segments[SegmentName(req'[c].path)]
                 /\ (pc[c] = "playlistWrite" /\ pc'[c] # pc[c]) =>
                        /\ pc'[c] = "done"
                        /\ resp'[c].status = 200
                        /\ resp'[c].body = playlist
                 /\ (pc[c] = "segmentGetWrite" /\ pc'[c] # pc[c]) =>
                        /\ pc'[c] = "done"
                        /\ resp'[c].status = 200
                        /\ resp'[c].body = buf[c]]_vars

\* The frame loop has returned after a failed write, main is inside
\* ListenAndServe, and a GET /index.m3u8 has been answered 200 with the
\* manifest while a segment is stored.
C17_Witness ==
    /\ writeFailed /\ loopPc = "returned" /\ mainPc = "serving"
    /\ segments # <<>>
    /\ \E c \in PipelineConns :
         /\ Answered(c, "GET") /\ req[c].path = PlaylistPath
         /\ resp[c].status = 200 /\ resp[c].body = playlist

\* C18: the encoder is started only with the capture device open, the frame
\* loop only with the encoder started, and requests are served only by a main
\* inside ListenAndServe with the frame loop started; a process ended by
\* OpenVideoCapture or by Start has started no later stage, written no frame
\* and served no request.
C18_StartupOrder ==
    /\ ffmpeg # "notStarted" => capture = "open"
    /\ loopPc # "notStarted" => ffmpeg # "notStarted"
    /\ mainPc = "serving" => loopPc # "notStarted"
    /\ (\E c \in Conns : pc[c] # "idle") => mainPc = "serving"
    /\ fatal = "OpenVideoCapture" => capture = "closed"
    /\ fatal \in {"OpenVideoCapture", "Start"} =>
         /\ mainPc = "exited"
         /\ ffmpeg = "notStarted"
         /\ loopPc = "notStarted"
         /\ stdinLen = 0
         /\ \A c \in Conns : pc[c] = "idle" /\ resp[c] = NoResp

\* The process was ended by Start after the capture device had been opened.
C18_Witness ==
    /\ fatal = "Start" /\ mainPc = "exited" /\ capture = "open"

\* C20: ffmpegIn is closed at most once, and only by a frame loop that has
\* returned; the loop returns only after a frame write has failed; and after
\* the close the loop takes no step and no frame enters the encoder's stdin.
C20_CloseOnlyOnLoopExit ==
    [][/\ closes' <= 1
       /\ closes' > 0 => loopPc' = "returned"
       /\ loopPc' = "returned" => (writeFailed' /\ closes' = 1)
       /\ closes > 0 => (loopPc' = loopPc /\ stdinLen' <= stdinLen)]_vars

\* The frame loop has returned after a failed write and closed ffmpegIn.
C20_Witness ==
    /\ closes = 1 /\ loopPc = "returned" /\ writeFailed
    /\ ffmpeg = "exited"

=============================================================================
